---- MODULE Spec2Model ----
(***************************************************************************)
(* The trip lifecycle of pine-api (src/trips): the Trip row, the create    *)
(* endpoint and the four detail actions assign / start / confirm / cancel  *)
(* of TripViewSet.                                                         *)
(*                                                                         *)
(* Spec      runs every handler body as one step (one request at a time).  *)
(* SpecConc  splits every detail action where the code splits it: the      *)
(*           SELECT of get_object() and the UPDATE of save(update_fields), *)
(*           so that requests of several workers interleave.               *)
(*                                                                         *)
(* The actions are the handler bodies. DRF's permission phase              *)
(* (check_permissions, run before the body) is not part of them.           *)
(***************************************************************************)
EXTENDS Integers, Sequences, FiniteSets, TLC

(* ------------------------------------------------------------------ *)
(* Bounds of the model                                                 *)
(* ------------------------------------------------------------------ *)
MaxTrips == 1
MaxReqs == 2
MaxUsers == 2

(* ------------------------------------------------------------------ *)
(* Nullable values: None is Python's None / SQL NULL, Some(x) a value  *)
(* ------------------------------------------------------------------ *)
None == <<>>
Some(x) == <<x>>

(* ------------------------------------------------------------------ *)
(* accounts.models.User.Role and trips.models.Trip.Status              *)
(* ------------------------------------------------------------------ *)
Roles == {"ADMIN", "COMPANY_OWNER", "INDIVIDUAL_DRIVER", "COMPANY_DRIVER"}
Status == {"PENDING", "ASSIGNED", "IN_PROGRESS", "COMPLETED", "CANCELLED"}
DefaultStatus == "PENDING"

Users == {"u1", "u2", "u3", "u4"}
\* accounts_user.role as the model starts: one user of every role
InitialRole == [u \in Users |-> CASE u = "u1" -> "COMPANY_OWNER"
                                  [] u = "u2" -> "COMPANY_DRIVER"
                                  [] u = "u3" -> "INDIVIDUAL_DRIVER"
                                  [] OTHER    -> "ADMIN"]
\* request.user of the requests the model follows: u1 dispatches the trips,
\* and u1 and u2 call the detail actions
Creators == {"u1"}
Callers == {"u1", "u2"}
TripIds == 1..MaxTrips
ReqIds == 1..MaxReqs

(* ------------------------------------------------------------------ *)
(* str(random.randint(100000, 999999)): strings are digit sequences    *)
(* ------------------------------------------------------------------ *)
RandLo == 100000
RandHi == 999999

RECURSIVE Str(_)
Str(n) == IF n < 10 THEN <<n>> ELSE Append(Str(n \div 10), n % 10)

\* random.randint(0, 999999): a generator that also draws short numbers
RandDraws_from_zero == {0, 482913, RandHi}

\* the draws of the generator the model follows (both ends and one inside)
RandDraws == {n \in {RandLo, 482913, RandHi} : RandLo <= n /\ n <= RandHi}

\* request.data.get("otp"): absent, or a string the client chose
SuppliedOtps == {None, Some(Str(482913)), Some(<<0, 0, 0, 0, 0, 0>>)}

(* ------------------------------------------------------------------ *)
(* The Trip row (the columns the lifecycle reads or writes)            *)
(* ------------------------------------------------------------------ *)
TripFields == {"status", "driver", "company", "otp_code",
               "assigned_at", "started_at", "completed_at", "cancelled_at"}

\* What a client can put in the body of POST /trips/: TripSerializer is a
\* ModelSerializer with fields = "__all__", so every editable column of
\* Trip is writable; an omitted nullable column stays NULL and an omitted
\* status takes the column default.
\* The bodies the model follows: the plain one (no optional column given),
\* one column (or the four timestamps) given alone, and all of them given.
PlainInput ==
    [status |-> DefaultStatus, driver |-> None, otp_code |-> None,
     assigned_at |-> None, started_at |-> None, completed_at |-> None,
     cancelled_at |-> None]

ForgedInput ==
    [status |-> "IN_PROGRESS", driver |-> Some("u3"), otp_code |-> Some(Str(482913)),
     assigned_at |-> Some(0), started_at |-> Some(0), completed_at |-> Some(0),
     cancelled_at |-> Some(0)]

CreateInputs ==
    {[PlainInput EXCEPT !.status = s] : s \in Status}
      \cup {[PlainInput EXCEPT !.otp_code = ForgedInput.otp_code],
            [PlainInput EXCEPT !.driver = ForgedInput.driver],
            [ForgedInput EXCEPT !.status = DefaultStatus, !.driver = None,
                                !.otp_code = None],
            ForgedInput}

VARIABLES
    role,     \* accounts_user.role of every user
    trips,    \* the trips table: primary key -> row
    now,      \* timezone.now(), a logical clock that ticks at every call
    resp,     \* the request last served and its response (Spec)
    reqs,     \* the requests in flight and served (SpecConc)
    writes,   \* per trip and action, how many times its save() ran
    db        \* the accounts tables that hang off the users

vars == <<role, trips, now, resp, reqs, writes, db>>

Actions == {"assign", "start", "confirm", "cancel"}

NoRow == [status |-> "NONE"]
NoResp == [op |-> "none", user |-> "none", id |-> 0, arg |-> None,
           result |-> "none", before |-> NoRow, data |-> NoRow]
Idle == [pc |-> "idle", op |-> "none", user |-> "none", id |-> 0, arg |-> None,
         obj |-> NoRow, result |-> "none"]

(* ------------------------------------------------------------------ *)
(* accounts: the rows that hang off a user, one table per reverse      *)
(* one-to-one accessor (user.profile, user.driver_profile,             *)
(* user.owned_company), and the post_save receivers of signals.py.     *)
(* A table is its rows by primary key and the last key its sequence    *)
(* gave out.                                                           *)
(* ------------------------------------------------------------------ *)
Tables == {"profile", "driver_profile", "owned_company"}
\* with accounts_user, of which the model keeps the columns that the
\* receivers copy (role is the variable of that name), and vehicles_vehicle
AllTables == Tables \cup {"user", "vehicle"}

\* the column of table t that refers to the user: Vehicle.driver, and the
\* user column of the accounts tables
UserColumn(t) == IF t = "vehicle" THEN "driver" ELSE "user"

EmptyDb == [t \in AllTables |-> [rows |-> <<>>, last_pk |-> 0]]

\* first_name, last_name, email and phone_number of user u; the user may
\* change last name, address and number together
LastNames == {"Doe", "Roe"}
ContactOf(u, n) ==
    [first_name |-> u, last_name |-> n, email |-> <<u, "@", n>>,
     phone_number |-> <<"0", u, n>>]

\* User.is_driver with COMPANY_OWNER left out of the list
is_driver_without_owner(r) == r \in {"INDIVIDUAL_DRIVER", "COMPANY_DRIVER"}

\* User.is_driver, a property computed from the role on every read
is_driver(r) == r \in {"INDIVIDUAL_DRIVER", "COMPANY_DRIVER", "COMPANY_OWNER"}

\* the names bound in the namespace of signals.py (lines 1-7); the class
\* behind user.profile is imported there as AdminProfile
SignalsNames == {"post_save", "receiver", "transaction", "User", "Company",
                 "AdminProfile", "DriverProfile", "logging", "logger"}
Bound(name) == name \in SignalsNames

driver_roles == {"COMPANY_OWNER", "INDIVIDUAL_DRIVER", "COMPANY_DRIVER"}

Related(d, t, u) == {pk \in DOMAIN d[t].rows : d[t].rows[pk][UserColumn(t)] = u}

\* hasattr(instance, "<accessor>"): the reverse one-to-one row exists
hasattr(d, u, t) == Related(d, t, u) # {}

UserRow(d, u) == d["user"].rows[CHOOSE pk \in Related(d, "user", u) : TRUE]

\* INSERT or UPDATE of the accounts_user row of u by User.save()
WriteUser(d, u, c) ==
    LET row == [user |-> u, first_name |-> c.first_name, last_name |-> c.last_name,
                email |-> c.email, phone_number |-> c.phone_number]
    IN IF Related(d, "user", u) = {}
       THEN [d EXCEPT !["user"] = [rows |-> @.rows @@ ((@.last_pk + 1) :> row),
                                   last_pk |-> @.last_pk + 1]]
       ELSE [d EXCEPT !["user"].rows =
                 [pk \in DOMAIN @ |-> IF pk \in Related(d, "user", u) THEN row ELSE @[pk]]]

\* Hashids(salt, min_length=12, alphabet).encode(id): a code of twelve
\* characters, a different one for every id
CodeLen == 12
hashids_encode(id) ==
    [i \in 1..CodeLen |-> IF i <= CodeLen - Len(Str(id)) THEN "A"
                          ELSE Str(id)[i - (CodeLen - Len(Str(id)))]]

\* a save() that never generates the code (the branch of line 100 not taken)
Company_save_no_code(d, pk, obj) ==
    IF pk = None
    THEN [d EXCEPT !["owned_company"] =
              [rows |-> @.rows @@ ((@.last_pk + 1) :> obj), last_pk |-> @.last_pk + 1]]
    ELSE [d EXCEPT !["owned_company"].rows[pk[1]] = obj]

\* Company.save(): without a code, INSERT first when the object has no pk,
\* then set invite_code from the id and UPDATE that column alone; with a
\* code, an ordinary save of every column
Company_save(d, pk, obj) ==
    IF obj.invite_code = <<>>
    THEN LET id == IF pk = None THEN d["owned_company"].last_pk + 1 ELSE pk[1]
             e == IF pk = None
                  THEN [d EXCEPT !["owned_company"] =
                            [rows |-> @.rows @@ (id :> obj), last_pk |-> id]]
                  ELSE d
         IN [e EXCEPT !["owned_company"].rows[id].invite_code = hashids_encode(id)]
    ELSE IF pk = None
    THEN [d EXCEPT !["owned_company"] =
              [rows |-> @.rows @@ ((@.last_pk + 1) :> obj), last_pk |-> @.last_pk + 1]]
    ELSE [d EXCEPT !["owned_company"].rows[pk[1]] = obj]

\* the object that objects.create() builds for user u before it saves it:
\* the keyword arguments of the call and the defaults of the other columns
NewRecord(d, t, u) ==
    CASE t = "owned_company" ->
           [user |-> u,
            name |-> <<UserRow(d, u).first_name, " ", UserRow(d, u).last_name,
                       "'s Company">>,
            email |-> UserRow(d, u).email,
            phone_number |-> UserRow(d, u).phone_number,
            invite_code |-> <<>>]
      [] t = "driver_profile" ->
           [user |-> u, license_number |-> <<>>, license_expiry |-> None,
            verified |-> FALSE, verified_at |-> None]
      [] OTHER -> [user |-> u]

\* INSERT of a row for user u with the next key of the sequence
Insert(d, t, u) ==
    IF t = "owned_company" THEN Company_save(d, None, NewRecord(d, t, u))
    ELSE [d EXCEPT ![t] = [rows |-> @.rows @@ ((@.last_pk + 1) :> NewRecord(d, t, u)),
                           last_pk |-> @.last_pk + 1]]

\* what a piece of handler code ends in: the tables it leaves, and whether
\* an exception is on its way out of it
Ok(d) == [raised |-> FALSE, db |-> d]
Raise(d) == [raised |-> TRUE, db |-> d]

\* with transaction.atomic(): an exception leaving the block undoes what the
\* block wrote (d is the database at its start) and goes on
atomic(res, d) == IF res.raised THEN Raise(d) ELSE res

\* try: ... except Exception as e: logger.error(...)
try_except(res) == Ok(res.db)

\* Model.objects.create(user=u): raises when the database rejects the INSERT;
\* f is the set of tables whose INSERT fails during this save, and the
\* OneToOneField is UNIQUE, so a second row for u is IntegrityError
objects_create(d, t, u, f) ==
    IF t \in f \/ hasattr(d, u, t) THEN Raise(d) ELSE Ok(Insert(d, t, u))

get_or_create(d, t, u, f) ==
    IF hasattr(d, u, t) THEN Ok(d) ELSE objects_create(d, t, u, f)

create_company_for_owner(d, u, r, created, f) ==
    IF created /\ r = "COMPANY_OWNER"
    THEN try_except(atomic(get_or_create(d, "owned_company", u, f), d))
    ELSE Ok(d)

\* driver_roles without COMPANY_OWNER
create_driver_profile_drivers_only(d, u, r, created, f) ==
    IF created /\ r \in driver_roles \ {"COMPANY_OWNER"}
    THEN try_except(atomic(get_or_create(d, "driver_profile", u, f), d))
    ELSE Ok(d)

create_driver_profile(d, u, r, created, f) ==
    IF created /\ r \in driver_roles
    THEN try_except(atomic(get_or_create(d, "driver_profile", u, f), d))
    ELSE Ok(d)

create_admin_profile(d, u, r, created, f) ==
    IF created /\ r = "ADMIN"
    THEN try_except(atomic(IF Bound("AdminProfile")
                           THEN get_or_create(d, "profile", u, f)
                           ELSE Raise(d), d))
    ELSE Ok(d)

\* a block that uses update_or_create for the Company: an existing company
\* gets name, email and phone_number of the user as they are now
role_change_block_refreshes_company(d, u, r, f) ==
    IF r \in driver_roles
    THEN LET a == IF hasattr(d, u, "driver_profile") THEN Ok(d)
                  ELSE objects_create(d, "driver_profile", u, f)
         IN IF a.raised THEN a
            ELSE IF r = "COMPANY_OWNER" /\ ~hasattr(a.db, u, "owned_company")
            THEN objects_create(a.db, "owned_company", u, f)
            ELSE IF r = "COMPANY_OWNER"
            THEN Ok([a.db EXCEPT !["owned_company"].rows =
                       [pk \in DOMAIN @ |->
                          IF pk \in Related(a.db, "owned_company", u)
                          THEN [@[pk] EXCEPT
                                  !.name = NewRecord(a.db, "owned_company", u).name,
                                  !.email = NewRecord(a.db, "owned_company", u).email,
                                  !.phone_number =
                                      NewRecord(a.db, "owned_company", u).phone_number]
                          ELSE @[pk]]])
            ELSE a
    ELSE IF r = "ADMIN" /\ ~hasattr(d, u, "profile")
    THEN IF Bound("Profile") THEN objects_create(d, "profile", u, f)
         ELSE Raise(d)
    ELSE Ok(d)

\* lines 96-130, the body of the atomic block of handle_role_change.
\* Profile is not a name of the module, so line 127 raises NameError.
role_change_block(d, u, r, f) ==
    IF r \in driver_roles
    THEN LET a == IF hasattr(d, u, "driver_profile") THEN Ok(d)
                  ELSE objects_create(d, "driver_profile", u, f)
         IN IF a.raised THEN a
            ELSE IF r = "COMPANY_OWNER" /\ ~hasattr(a.db, u, "owned_company")
            THEN objects_create(a.db, "owned_company", u, f)
            ELSE a
    ELSE IF r = "ADMIN" /\ ~hasattr(d, u, "profile")
    THEN IF Bound("Profile") THEN objects_create(d, "profile", u, f)
         ELSE Raise(d)
    ELSE Ok(d)

\* a reconciliation that inserts without looking, into tables whose user
\* column is not unique
handle_role_change_no_check(d, u, r, created, f) ==
    IF created THEN Ok(d)
    ELSE IF r \in driver_roles
    THEN IF r = "COMPANY_OWNER"
         THEN Ok(Insert(Insert(d, "driver_profile", u), "owned_company", u))
         ELSE Ok(Insert(d, "driver_profile", u))
    ELSE Ok(d)

\* a reconciliation that removes the rows the new role does not call for
handle_role_change_cleans_up(d, u, r, created, f) ==
    IF created THEN Ok(d)
    ELSE LET keep == IF r = "ADMIN" THEN {"profile"}
                     ELSE IF r = "COMPANY_OWNER"
                     THEN {"driver_profile", "owned_company"}
                     ELSE {"driver_profile"}
             e == [t \in AllTables |->
                     IF t \in keep \cup {"user"} THEN d[t]
                     ELSE [rows |-> [pk \in DOMAIN d[t].rows \ Related(d, t, u)
                                       |-> d[t].rows[pk]],
                           last_pk |-> d[t].last_pk]]
         IN try_except(atomic(role_change_block(e, u, r, f), e))

\* a reconciliation without transaction.atomic(): what was inserted before
\* the exception stays
handle_role_change_no_atomic(d, u, r, created, f) ==
    IF created THEN Ok(d)
    ELSE try_except(role_change_block(d, u, r, f))

\* a reconciliation without the try/except around its atomic block
handle_role_change_unguarded(d, u, r, created, f) ==
    IF created THEN Ok(d)
    ELSE atomic(role_change_block(d, u, r, f), d)

handle_role_change(d, u, r, created, f) ==
    IF created THEN Ok(d)
    ELSE try_except(atomic(role_change_block(d, u, r, f), d))

\* post_save of User: Signal.send calls the four receivers in the order they
\* were connected; an exception that leaves a receiver leaves send() as well
post_save(d, u, r, created, f) ==
    LET a == create_company_for_owner(d, u, r, created, f)
        b == IF a.raised THEN a ELSE create_driver_profile(a.db, u, r, created, f)
        c == IF b.raised THEN b ELSE create_admin_profile(b.db, u, r, created, f)
    IN IF c.raised THEN c ELSE handle_role_change(c.db, u, r, created, f)

\* the order in which the model's users come to exist
UserOrder == <<"u1", "u2", "u3", "u4">>

\* the tables after the first n users were created with their InitialRole
RECURSIVE Provisioned(_)
Provisioned(n) ==
    IF n = 0 THEN EmptyDb
    ELSE post_save(WriteUser(Provisioned(n - 1), UserOrder[n],
                             ContactOf(UserOrder[n], "Doe")),
                   UserOrder[n], InitialRole[UserOrder[n]], TRUE, {}).db

Init ==
    /\ role = InitialRole
    /\ db = Provisioned(Len(UserOrder))
    /\ trips = <<>>
    /\ now = 1
    /\ resp = NoResp
    /\ reqs = [r \in ReqIds |-> Idle]
    /\ writes = <<>>

(* ------------------------------------------------------------------ *)
(* TripViewSet.perform_create: serializer.save(company=request.user)   *)
(* ------------------------------------------------------------------ *)
NewRow(u, in) ==
    [status |-> in.status, driver |-> in.driver, company |-> u,
     otp_code |-> in.otp_code, assigned_at |-> in.assigned_at,
     started_at |-> in.started_at, completed_at |-> in.completed_at,
     cancelled_at |-> in.cancelled_at]

\* TripSerializer(instance).data: Meta.fields = "__all__", every column of the
\* row under its own name
SerializerFields == TripFields

to_representation(t) == [f \in SerializerFields |-> t[f]]

perform_create(u, in) ==
    /\ u \in DOMAIN role
    /\ Cardinality(DOMAIN writes) < MaxTrips
    /\ LET id == Cardinality(DOMAIN writes) + 1 IN
         /\ trips' = trips @@ (id :> NewRow(u, in))
         /\ writes' = writes @@ (id :> [a \in Actions |-> 0])
         /\ resp' = [op |-> "create", user |-> u, id |-> id, arg |-> None,
                     result |-> "Created", before |-> NoRow,
                     data |-> to_representation(NewRow(u, in))]
    /\ UNCHANGED <<role, now, reqs, db>>

Create == \E u \in Creators, in \in CreateInputs : perform_create(u, in)

(* ------------------------------------------------------------------ *)
(* get_object(): the row with this pk in get_queryset(), which is      *)
(* Trip.objects.filter(company=request.user); Http404 when none        *)
(* ------------------------------------------------------------------ *)
get_queryset(u) == {id \in DOMAIN trips : trips[id].company = u}

get_object(u, id) == IF id \in get_queryset(u) THEN Some(trips[id]) ELSE None

(* ------------------------------------------------------------------ *)
(* TripAssignSerializer.is_valid: `driver` is a required               *)
(* PrimaryKeyRelatedField over User.objects.filter(role=COMPANY_DRIVER)*)
(* and validate() checks the role again                                *)
(* ------------------------------------------------------------------ *)
DriverQueryset == {u \in DOMAIN role : role[u] = "COMPANY_DRIVER"}

\* a serializer whose queryset and validate() accept every user
TripAssignSerializer_any_user(cand) == cand # None

TripAssignSerializer_is_valid(cand) ==
    /\ cand # None
    /\ cand[1] \in DriverQueryset
    /\ role[cand[1]] = "COMPANY_DRIVER"

(* ------------------------------------------------------------------ *)
(* The handler bodies after get_object(): from the in-memory Trip t    *)
(* to the response, the Trip as assigned to, and save()'s update_fields*)
(* (empty when save() is not reached).                                 *)
(*   400 "Trip not pending" / "Trip already assigned" /                *)
(*       "Trip not assigned"          -> InvalidState                  *)
(*   400 from is_valid(raise_exception=True) -> InvalidAssignee        *)
(*   400 "OTP not sent"               -> OtpNotIssued                  *)
(*   400 "Invalid OTP"                -> OtpMismatch                   *)
(*   200                              -> Ok                            *)
(* ------------------------------------------------------------------ *)
Fail(t, why) == [result |-> why, obj |-> t, fields |-> {}]

\* assign without its status checks (lines 50-57)
assign_body_unchecked(t, cand, draw) ==
    IF ~TripAssignSerializer_is_valid(cand) THEN Fail(t, "InvalidAssignee")
    ELSE [result |-> "Ok",
          obj |-> [t EXCEPT !.otp_code = Some(Str(draw)),
                            !.driver = cand,
                            !.status = "ASSIGNED",
                            !.assigned_at = Some(now)],
          fields |-> {"otp_code", "driver", "status", "assigned_at"}]

assign_body(t, cand, draw) ==
    IF t.status # "PENDING" THEN Fail(t, "InvalidState")
    ELSE IF t.status = "ASSIGNED" THEN Fail(t, "InvalidState")
    ELSE IF ~TripAssignSerializer_is_valid(cand) THEN Fail(t, "InvalidAssignee")
    ELSE [result |-> "Ok",
          obj |-> [t EXCEPT !.otp_code = Some(Str(draw)),
                            !.driver = cand,
                            !.status = "ASSIGNED",
                            !.assigned_at = Some(now)],
          fields |-> {"otp_code", "driver", "status", "assigned_at"}]

\* start that also throws the code away and saves it (an extra column written)
start_body_clears_code(t) ==
    IF t.status # "ASSIGNED" THEN Fail(t, "InvalidState")
    ELSE [result |-> "Ok",
          obj |-> [t EXCEPT !.status = "IN_PROGRESS", !.started_at = Some(now),
                            !.otp_code = None],
          fields |-> {"status", "started_at", "otp_code"}]

start_body(t) ==
    IF t.status # "ASSIGNED" THEN Fail(t, "InvalidState")
    ELSE [result |-> "Ok",
          obj |-> [t EXCEPT !.status = "IN_PROGRESS", !.started_at = Some(now)],
          fields |-> {"status", "started_at"}]

\* confirm that does not clear the code (line 96 missing)
confirm_body_keeps_code(t, otp) ==
    IF t.otp_code = None THEN Fail(t, "OtpNotIssued")
    ELSE IF t.otp_code # otp THEN Fail(t, "OtpMismatch")
    ELSE [result |-> "Ok",
          obj |-> [t EXCEPT !.status = "COMPLETED", !.completed_at = Some(now)],
          fields |-> {"status", "completed_at", "otp_code"}]

\* confirm without the comparison of the codes (lines 90-93 missing)
confirm_body_any_code(t, otp) ==
    IF t.otp_code = None THEN Fail(t, "OtpNotIssued")
    ELSE [result |-> "Ok",
          obj |-> [t EXCEPT !.status = "COMPLETED",
                            !.completed_at = Some(now),
                            !.otp_code = None],
          fields |-> {"status", "completed_at", "otp_code"}]

\* confirm whose save() leaves "status" out of update_fields (line 97)
confirm_body_status_not_saved(t, otp) ==
    IF t.otp_code = None THEN Fail(t, "OtpNotIssued")
    ELSE IF t.otp_code # otp THEN Fail(t, "OtpMismatch")
    ELSE [result |-> "Ok",
          obj |-> [t EXCEPT !.status = "COMPLETED",
                            !.completed_at = Some(now),
                            !.otp_code = None],
          fields |-> {"completed_at", "otp_code"}]

confirm_body(t, otp) ==
    IF t.otp_code = None THEN Fail(t, "OtpNotIssued")
    ELSE IF t.otp_code # otp THEN Fail(t, "OtpMismatch")
    ELSE [result |-> "Ok",
          obj |-> [t EXCEPT !.status = "COMPLETED",
                            !.completed_at = Some(now),
                            !.otp_code = None],
          fields |-> {"status", "completed_at", "otp_code"}]

\* cancel that also accepts an assigned trip (line 107 tests too little)
cancel_body_after_assign(t) ==
    IF t.status \notin {"PENDING", "ASSIGNED"} THEN Fail(t, "InvalidState")
    ELSE [result |-> "Ok",
          obj |-> [t EXCEPT !.otp_code = None,
                            !.status = "CANCELLED",
                            !.cancelled_at = Some(now)],
          fields |-> {"otp_code", "status", "cancelled_at"}]

cancel_body(t) ==
    IF t.status # "PENDING" THEN Fail(t, "InvalidState")
    ELSE [result |-> "Ok",
          obj |-> [t EXCEPT !.otp_code = None,
                            !.status = "CANCELLED",
                            !.cancelled_at = Some(now)],
          fields |-> {"otp_code", "status", "cancelled_at"}]

Body(op, t, arg, draw) ==
    CASE op = "assign"  -> assign_body(t, arg, draw)
      [] op = "start"   -> start_body(t)
      [] op = "confirm" -> confirm_body(t, arg)
      [] op = "cancel"  -> cancel_body(t)

\* Model.save(update_fields=fields): one UPDATE of exactly these columns
\* save() without update_fields: every column of the in-memory copy is written
Save_all_columns(row, obj, fields) ==
    [f \in TripFields |-> obj[f]]

Save(row, obj, fields) ==
    [f \in TripFields |-> IF f \in fields THEN obj[f] ELSE row[f]]

\* the request bodies the model follows, per action
Candidates == {None} \cup {Some(u) : u \in Users}
Args(op) == CASE op = "assign"  -> Candidates
              [] op = "confirm" -> SuppliedOtps
              [] OTHER          -> {None}

(* ------------------------------------------------------------------ *)
(* Spec: one request at a time, the whole handler in one step          *)
(* ------------------------------------------------------------------ *)
Serve(op, u, id, arg, draw) ==
    /\ u \in DOMAIN role
    /\ LET got == get_object(u, id) IN
       IF got = None
       THEN /\ resp' = [op |-> op, user |-> u, id |-> id, arg |-> arg,
                        result |-> "NotFound", before |-> NoRow, data |-> NoRow]
            /\ UNCHANGED <<trips, now, writes>>
       ELSE LET out == Body(op, got[1], arg, draw) IN
            /\ resp' = [op |-> op, user |-> u, id |-> id, arg |-> arg,
                        result |-> out.result, before |-> got[1], data |-> NoRow]
            /\ IF out.fields = {}
               THEN UNCHANGED <<trips, now, writes>>
               ELSE /\ trips' = [trips EXCEPT ![id] = Save(@, out.obj, out.fields)]
                    /\ writes' = [writes EXCEPT ![id][op] = @ + 1]
                    /\ now' = now + 1
    /\ UNCHANGED <<role, reqs, db>>

\* random.randint is called on the success path only (line 60)
Draws(u, id, cand) ==
    IF get_object(u, id) # None /\ assign_body(get_object(u, id)[1], cand, RandLo).result = "Ok"
    THEN RandDraws ELSE {RandLo}

assign(u, id, cand) ==
    /\ id \in TripIds
    /\ \E draw \in Draws(u, id, cand) : Serve("assign", u, id, cand, draw)

start(u, id) ==
    /\ id \in TripIds
    /\ Serve("start", u, id, None, RandLo)

confirm(u, id, otp) ==
    /\ id \in TripIds
    /\ Serve("confirm", u, id, otp, RandLo)

cancel(u, id) ==
    /\ id \in TripIds
    /\ Serve("cancel", u, id, None, RandLo)

\* GET /trips/{id}/: RetrieveModelMixin.retrieve, get_object() then the
\* serializer's data
retrieve(u, id) ==
    /\ id \in TripIds
    /\ u \in DOMAIN role
    /\ LET got == get_object(u, id) IN
         resp' = [op |-> "retrieve", user |-> u, id |-> id, arg |-> None,
                  result |-> IF got = None THEN "NotFound" ELSE "Ok",
                  before |-> IF got = None THEN NoRow ELSE got[1],
                  data |-> IF got = None THEN NoRow ELSE to_representation(got[1])]
    /\ UNCHANGED <<role, trips, now, reqs, writes, db>>

Assign == \E u \in Callers, id \in TripIds, cand \in Candidates : assign(u, id, cand)

Start == \E u \in Callers, id \in TripIds : start(u, id)

Confirm == \E u \in Callers, id \in TripIds, otp \in SuppliedOtps : confirm(u, id, otp)

Cancel == \E u \in Callers, id \in TripIds : cancel(u, id)

Retrieve == \E u \in Callers, id \in TripIds : retrieve(u, id)

Next == Create \/ Assign \/ Start \/ Confirm \/ Cancel \/ Retrieve

Spec == Init /\ [][Next]_vars

(* ------------------------------------------------------------------ *)
(* SpecConc: requests of several workers. A detail action is two       *)
(* database steps, the SELECT of get_object() and the UPDATE of        *)
(* save(update_fields=...); everything between them works on the       *)
(* in-memory Trip. No transaction, select_for_update or version column *)
(* ties the two together.                                              *)
(* ------------------------------------------------------------------ *)
Load(r, op, u, id, arg) ==
    /\ reqs[r].pc = "idle"
    /\ u \in DOMAIN role
    /\ LET got == get_object(u, id) IN
       reqs' = [reqs EXCEPT ![r] =
                  IF got = None
                  THEN [pc |-> "done", op |-> op, user |-> u, id |-> id, arg |-> arg,
                        obj |-> NoRow, result |-> "NotFound"]
                  ELSE [pc |-> "loaded", op |-> op, user |-> u, id |-> id, arg |-> arg,
                        obj |-> got[1], result |-> "none"]]
    /\ UNCHANGED <<role, trips, now, resp, writes, db>>

Finish(r) ==
    /\ reqs[r].pc = "loaded"
    /\ \E draw \in (IF Body(reqs[r].op, reqs[r].obj, reqs[r].arg, RandLo).result = "Ok"
                       /\ reqs[r].op = "assign" THEN RandDraws ELSE {RandLo}) :
       LET q == reqs[r]
           out == Body(q.op, q.obj, q.arg, draw) IN
         /\ reqs' = [reqs EXCEPT ![r] = [q EXCEPT !.pc = "done", !.result = out.result]]
         /\ IF out.fields = {}
            THEN UNCHANGED <<trips, now, writes>>
            ELSE /\ trips' = [trips EXCEPT ![q.id] = Save(@, out.obj, out.fields)]
                 /\ writes' = [writes EXCEPT ![q.id][q.op] = @ + 1]
                 /\ now' = now + 1
    /\ UNCHANGED <<role, resp, db>>

Begin == \E r \in ReqIds, op \in Actions, u \in Callers, id \in TripIds :
             \E arg \in Args(op) : Load(r, op, u, id, arg)

End == \E r \in ReqIds : Finish(r)

NextConc == Create \/ Begin \/ End

SpecConc == Init /\ [][NextConc]_vars

(* ------------------------------------------------------------------ *)
(* SpecRace: assign and cancel requests of several workers on trips    *)
(* that were created with the model defaults.                          *)
(* ------------------------------------------------------------------ *)
CreatePlain == \E u \in Creators : perform_create(u, PlainInput)

BeginAssignOrCancel ==
    \E r \in ReqIds, op \in {"assign", "cancel"}, u \in Callers, id \in TripIds :
        \E arg \in Args(op) : Load(r, op, u, id, arg)

NextRace == CreatePlain \/ BeginAssignOrCancel \/ End

SpecRace == Init /\ [][NextRace]_vars

(* ------------------------------------------------------------------ *)
(* SpecAccounts: users come to exist and are saved, from an empty      *)
(* database. User.objects.create_user(role=r) and user.role = r;       *)
(* user.save() both end in post_save, with created set by the first.   *)
(* ------------------------------------------------------------------ *)
InitAccounts ==
    /\ role = <<>>
    /\ db = EmptyDb
    /\ trips = <<>>
    /\ now = 1
    /\ resp = NoResp
    /\ reqs = [r \in ReqIds |-> Idle]
    /\ writes = <<>>

create_user(u, r) ==
    /\ Cardinality(DOMAIN role) < MaxUsers
    /\ Cardinality(DOMAIN role) < Len(UserOrder)
    /\ u = UserOrder[Cardinality(DOMAIN role) + 1]
    /\ role' = role @@ (u :> r)
    /\ db' = post_save(WriteUser(db, u, ContactOf(u, "Doe")), u, r, TRUE, {}).db
    /\ resp' = [op |-> "create_user", user |-> u, id |-> 0, arg |-> Some(r),
                result |-> IF post_save(WriteUser(db, u, ContactOf(u, "Doe")),
                                        u, r, TRUE, {}).raised
                           THEN "Error" ELSE "Ok",
                before |-> NoRow, data |-> NoRow]
    /\ UNCHANGED <<trips, now, reqs, writes>>

\* user.role = r; user.save(), r being the role the user has or another one
save_user(u, r) ==
    /\ u \in DOMAIN role
    /\ role' = [role EXCEPT ![u] = r]
    /\ db' = post_save(db, u, r, FALSE, {}).db
    /\ resp' = [op |-> "save_user", user |-> u, id |-> 0, arg |-> Some(r),
                result |-> IF post_save(db, u, r, FALSE, {}).raised
                           THEN "Error" ELSE "Ok",
                before |-> [role |-> role[u]], data |-> NoRow]
    /\ UNCHANGED <<trips, now, reqs, writes>>

CreateUser == \E u \in Users, r \in Roles : create_user(u, r)

SaveUser == \E u \in Users, r \in Roles : save_user(u, r)

NextAccounts == CreateUser \/ SaveUser

SpecAccounts == InitAccounts /\ [][NextAccounts]_vars

(* ------------------------------------------------------------------ *)
(* SpecFaults: SpecAccounts with a database that may reject the        *)
(* INSERTs of a save: f is the set of tables whose INSERT raises       *)
(* while the receivers of that save run (none, some or all of them).   *)
(* ------------------------------------------------------------------ *)
FaultSets == SUBSET Tables

create_user_faulty(u, r, f) ==
    /\ Cardinality(DOMAIN role) < MaxUsers
    /\ Cardinality(DOMAIN role) < Len(UserOrder)
    /\ u = UserOrder[Cardinality(DOMAIN role) + 1]
    /\ role' = role @@ (u :> r)
    /\ db' = post_save(WriteUser(db, u, ContactOf(u, "Doe")), u, r, TRUE, f).db
    /\ resp' = [op |-> "create_user", user |-> u, id |-> 0, arg |-> Some(r),
                result |-> IF post_save(WriteUser(db, u, ContactOf(u, "Doe")),
                                        u, r, TRUE, f).raised
                           THEN "Error" ELSE "Ok",
                before |-> NoRow, data |-> NoRow]
    /\ UNCHANGED <<trips, now, reqs, writes>>

save_user_faulty(u, r, f) ==
    /\ u \in DOMAIN role
    /\ role' = [role EXCEPT ![u] = r]
    /\ db' = post_save(db, u, r, FALSE, f).db
    /\ resp' = [op |-> "save_user", user |-> u, id |-> 0, arg |-> Some(r),
                result |-> IF post_save(db, u, r, FALSE, f).raised
                           THEN "Error" ELSE "Ok",
                before |-> [role |-> role[u]], data |-> NoRow]
    /\ UNCHANGED <<trips, now, reqs, writes>>

CreateUserFaulty == \E u \in Users, r \in Roles, f \in FaultSets : create_user_faulty(u, r, f)

SaveUserFaulty == \E u \in Users, r \in Roles, f \in FaultSets : save_user_faulty(u, r, f)

NextFaults == CreateUserFaulty \/ SaveUserFaulty

SpecFaults == InitAccounts /\ [][NextFaults]_vars

(* ------------------------------------------------------------------ *)
(* SpecRollback: users of Init are saved with other roles while the    *)
(* tables of a fault set refuse their INSERTs; the response records    *)
(* the fault set and the tables in which the user had a row before.    *)
(* ------------------------------------------------------------------ *)
\* the users that are saved: an owner who has every row, and an ADMIN who
\* has neither a DriverProfile nor a Company
Reconciled == {"u1", "u4"}

save_user_recorded(u, r, f) ==
    /\ u \in DOMAIN role
    /\ role' = [role EXCEPT ![u] = r]
    /\ db' = post_save(db, u, r, FALSE, f).db
    /\ resp' = [op |-> "save_user", user |-> u, id |-> 0, arg |-> Some(r),
                result |-> IF post_save(db, u, r, FALSE, f).raised
                           THEN "Error" ELSE "Ok",
                before |-> [role |-> role[u],
                            has |-> {t \in Tables : hasattr(db, u, t)}],
                data |-> [faults |-> f]]
    /\ UNCHANGED <<trips, now, reqs, writes>>

SaveUserRecorded ==
    \E u \in Reconciled, r \in Roles, f \in FaultSets : save_user_recorded(u, r, f)

NextRollback == SaveUserRecorded

SpecRollback == Init /\ [][NextRollback]_vars

(* ------------------------------------------------------------------ *)
(* SpecReconcile: saves of users by several workers. A save writes the *)
(* role and runs handle_role_change, whose atomic block is a database  *)
(* transaction: each hasattr() is a SELECT that sees committed rows,   *)
(* each objects.create() an INSERT that stays pending until the block  *)
(* commits. A request of reqs holds the transaction in obj.            *)
(* ------------------------------------------------------------------ *)
\* no UNIQUE index on the user column
not_unique(t) == FALSE

\* OneToOneField: the user column of each accounts table is UNIQUE
unique(t) == t \in Tables

\* the users whose saves run side by side: a company driver, and an ADMIN
\* who has neither a DriverProfile nor a Company
Savers == {"u2", "u4"}

NoTx == [pending |-> {}, missing |-> FALSE, error |-> "none"]

InTx(r) == reqs[r].pc \notin {"idle", "done"}

\* user.save(): the UPDATE of the role, then post_save with created False
\* enters the atomic block of handle_role_change
BeginSave(r, u, ro) ==
    /\ reqs[r].pc = "idle"
    /\ u \in DOMAIN role
    /\ role' = [role EXCEPT ![u] = ro]
    /\ reqs' = [reqs EXCEPT ![r] =
                  [pc |-> "block", op |-> "save_user", user |-> u, id |-> 0,
                   arg |-> Some(ro), obj |-> NoTx, result |-> "none"]]
    /\ UNCHANGED <<trips, now, resp, writes, db>>

\* hasattr(instance, "<accessor>") at position pc, read from the committed
\* rows and the transaction's own
Check(r, pc, t, to) ==
    /\ reqs[r].pc = pc
    /\ reqs' = [reqs EXCEPT ![r].pc = to,
                            ![r].obj.missing = ~(hasattr(db, reqs[r].user, t)
                                                   \/ t \in reqs[r].obj.pending)]
    /\ UNCHANGED <<role, trips, now, resp, writes, db>>

\* the exception leaves the atomic block, which rolls back, and is logged
\* by the except clause: the save returns normally
Swallow(r, why) ==
    reqs' = [reqs EXCEPT ![r].pc = "done", ![r].result = "Ok",
                         ![r].obj = [pending |-> {}, missing |-> FALSE, error |-> why]]

\* <Model>.objects.create(...) at position pc when the check found no row:
\* the INSERT waits while another transaction holds a pending row with the
\* same unique key, and is rejected when a committed row has it
Create_row(r, pc, t, to) ==
    /\ reqs[r].pc = pc
    /\ IF ~reqs[r].obj.missing
       THEN reqs' = [reqs EXCEPT ![r].pc = to]
       ELSE /\ ~(unique(t) /\ \E q \in ReqIds \ {r} :
                                 /\ InTx(q)
                                 /\ reqs[q].user = reqs[r].user
                                 /\ t \in reqs[q].obj.pending)
            /\ IF unique(t) /\ hasattr(db, reqs[r].user, t)
               THEN Swallow(r, "IntegrityError")
               ELSE reqs' = [reqs EXCEPT ![r].pc = to,
                                         ![r].obj.pending = @ \cup {t}]
    /\ UNCHANGED <<role, trips, now, resp, writes, db>>

\* line 103
CheckDriverProfile(r) ==
    /\ reqs[r].pc = "block"
    /\ reqs[r].arg[1] \in driver_roles
    /\ Check(r, "block", "driver_profile", "driver_profile_checked")

\* line 104; line 110 sends an owner on to the company
CreateDriverProfile(r) ==
    /\ reqs[r].pc = "driver_profile_checked"
    /\ Create_row(r, "driver_profile_checked", "driver_profile",
                  IF reqs[r].arg[1] = "COMPANY_OWNER" THEN "owner" ELSE "commit")

\* line 111
CheckCompany(r) == Check(r, "owner", "owned_company", "owned_company_checked")

\* lines 112-117
CreateCompany(r) == Create_row(r, "owned_company_checked", "owned_company", "commit")

\* line 126
CheckProfile(r) ==
    /\ reqs[r].pc = "block"
    /\ reqs[r].arg[1] = "ADMIN"
    /\ Check(r, "block", "profile", "profile_checked")

\* line 127: Profile is not a name of signals.py
CreateProfile(r) ==
    IF reqs[r].pc = "profile_checked" /\ reqs[r].obj.missing /\ ~Bound("Profile")
    THEN /\ Swallow(r, "NameError")
         /\ UNCHANGED <<role, trips, now, resp, writes, db>>
    ELSE Create_row(r, "profile_checked", "profile", "commit")

\* the atomic block ends: the pending rows are committed
Commit(r) ==
    /\ reqs[r].pc = "commit"
    /\ LET u == reqs[r].user
           p == reqs[r].obj.pending
           a == IF "driver_profile" \in p THEN Insert(db, "driver_profile", u) ELSE db
           b == IF "owned_company" \in p THEN Insert(a, "owned_company", u) ELSE a
       IN db' = IF "profile" \in p THEN Insert(b, "profile", u) ELSE b
    /\ reqs' = [reqs EXCEPT ![r].pc = "done", ![r].result = "Ok"]
    /\ UNCHANGED <<role, trips, now, resp, writes>>

SaveBegins == \E r \in ReqIds, u \in Savers, ro \in Roles : BeginSave(r, u, ro)

BlockSteps ==
    \E r \in ReqIds :
        \/ CheckDriverProfile(r)
        \/ CreateDriverProfile(r)
        \/ CheckCompany(r)
        \/ CreateCompany(r)
        \/ CheckProfile(r)
        \/ CreateProfile(r)
        \/ Commit(r)

NextReconcile == SaveBegins \/ BlockSteps

SpecReconcile == Init /\ [][NextReconcile]_vars

(* ------------------------------------------------------------------ *)
(* SpecData: the users of Init; two of them change role and contact    *)
(* columns when they are saved, fill in their driver profiles and      *)
(* rename their companies.                                             *)
(* ------------------------------------------------------------------ *)
\* user.last_name, user.email, user.phone_number = ...; user.role = r;
\* user.save()
update_user(u, r, n) ==
    /\ u \in DOMAIN role
    /\ role' = [role EXCEPT ![u] = r]
    /\ db' = post_save(WriteUser(db, u, ContactOf(u, n)), u, r, FALSE, {}).db
    /\ resp' = [op |-> "save_user", user |-> u, id |-> 0, arg |-> Some(r),
                result |-> IF post_save(WriteUser(db, u, ContactOf(u, n)),
                                        u, r, FALSE, {}).raised
                           THEN "Error" ELSE "Ok",
                before |-> [role |-> role[u]], data |-> NoRow]
    /\ UNCHANGED <<trips, now, reqs, writes>>

\* the license numbers a driver enters
LicenseNumbers == {<<"D", "L", 1>>}

\* profile = user.driver_profile; profile.license_number = lic; profile.save()
save_profile(u, lic) ==
    /\ u \in DOMAIN role
    /\ hasattr(db, u, "driver_profile")
    /\ db' = [db EXCEPT !["driver_profile"].rows =
                [pk \in DOMAIN @ |->
                   IF pk \in Related(db, "driver_profile", u)
                   THEN [@[pk] EXCEPT !.license_number = lic] ELSE @[pk]]]
    /\ resp' = [op |-> "save_profile", user |-> u, id |-> 0, arg |-> None,
                result |-> "Ok", before |-> NoRow, data |-> NoRow]
    /\ UNCHANGED <<role, trips, now, reqs, writes>>

\* the users that are saved and edited: u1 has a company since it was
\* created, u2 gets one when it is saved as COMPANY_OWNER
Editors == {"u1", "u2"}

UpdateUser == \E u \in Editors, r \in Roles, n \in LastNames : update_user(u, r, n)

SaveProfile == \E u \in Editors, lic \in LicenseNumbers : save_profile(u, lic)

\* company = user.owned_company; company.name = name; company.save(), the
\* object carrying the invite_code it was loaded with or none at all
CompanyNames == {<<"Acme">>}

save_company(u, name, blank) ==
    /\ u \in DOMAIN role
    /\ hasattr(db, u, "owned_company")
    /\ LET pk == CHOOSE k \in Related(db, "owned_company", u) : TRUE
           obj == [db["owned_company"].rows[pk] EXCEPT
                     !.name = name,
                     !.invite_code = IF blank THEN <<>> ELSE @]
       IN /\ db' = Company_save(db, Some(pk), obj)
          /\ resp' = [op |-> "save_company", user |-> u, id |-> pk, arg |-> None,
                      result |-> "Ok", before |-> NoRow, data |-> NoRow]
    /\ UNCHANGED <<role, trips, now, reqs, writes>>

SaveCompany == \E u \in Editors, name \in CompanyNames, blank \in BOOLEAN :
                   save_company(u, name, blank)

NextData == UpdateUser \/ SaveProfile \/ SaveCompany

SpecData == Init /\ [][NextData]_vars

(* ------------------------------------------------------------------ *)
(* SpecDelete: the trip requests of Spec and user.delete(). Every      *)
(* foreign key to User in accounts and trips is on_delete=CASCADE: the *)
(* collector removes the user's accounts rows and every trip whose     *)
(* company or driver the user is.                                      *)
(* ------------------------------------------------------------------ *)
\* a delete whose collector does not reach the Company of the user (its
\* owner declared with on_delete=DO_NOTHING)
delete_user_keeps_company(u) ==
    /\ u \in DOMAIN role
    /\ role' = [x \in DOMAIN role \ {u} |-> role[x]]
    /\ db' = [t \in AllTables |->
                IF t = "owned_company" THEN db[t]
                ELSE [rows |-> [pk \in DOMAIN db[t].rows \ Related(db, t, u)
                                  |-> db[t].rows[pk]],
                      last_pk |-> db[t].last_pk]]
    /\ trips' = [id \in {i \in DOMAIN trips : /\ trips[i].company # u
                                              /\ trips[i].driver # Some(u)}
                   |-> trips[id]]
    /\ resp' = [op |-> "delete_user", user |-> u, id |-> 0, arg |-> None,
                result |-> "Ok", before |-> NoRow, data |-> NoRow]
    /\ UNCHANGED <<now, reqs, writes>>

delete_user(u) ==
    /\ u \in DOMAIN role
    /\ role' = [x \in DOMAIN role \ {u} |-> role[x]]
    /\ db' = [t \in AllTables |->
                [rows |-> [pk \in DOMAIN db[t].rows \ Related(db, t, u)
                             |-> db[t].rows[pk]],
                 last_pk |-> db[t].last_pk]]
    /\ trips' = [id \in {i \in DOMAIN trips : /\ trips[i].company # u
                                              /\ trips[i].driver # Some(u)}
                   |-> trips[id]]
    /\ resp' = [op |-> "delete_user", user |-> u, id |-> 0, arg |-> None,
                result |-> "Ok", before |-> NoRow, data |-> NoRow]
    /\ UNCHANGED <<now, reqs, writes>>

DeleteUser == \E u \in Users : delete_user(u)

NextDelete == Next \/ DeleteUser

SpecDelete == Init /\ [][NextDelete]_vars

(* ------------------------------------------------------------------ *)
(* SpecCascade: the users of Init are saved with other roles and       *)
(* deleted.                                                            *)
(* ------------------------------------------------------------------ *)
NextCascade == UpdateUser \/ DeleteUser

SpecCascade == Init /\ [][NextCascade]_vars

(* ------------------------------------------------------------------ *)
(* SpecVerify: driver profiles are verified and edited through         *)
(* validation, while users are saved with other roles.                 *)
(* ------------------------------------------------------------------ *)
\* clean() without the test of lines 257-260
DriverProfile_clean_expiry_only(obj) ==
    ~(obj.license_expiry # None /\ obj.license_expiry[1] < now)

\* DriverProfile.clean(): TRUE when it raises no ValidationError; today is
\* the clock
DriverProfile_clean(obj) ==
    /\ ~(obj.license_expiry # None /\ obj.license_expiry[1] < now)
    /\ ~(obj.verified /\ obj.verified_at = None)

\* DriverProfile.mark_verified()
mark_verified(u) ==
    /\ u \in DOMAIN role
    /\ hasattr(db, u, "driver_profile")
    /\ db' = [db EXCEPT !["driver_profile"].rows =
                [pk \in DOMAIN @ |->
                   IF pk \in Related(db, "driver_profile", u)
                   THEN [@[pk] EXCEPT !.verified = TRUE, !.verified_at = Some(now)]
                   ELSE @[pk]]]
    /\ resp' = [op |-> "mark_verified", user |-> u, id |-> 0, arg |-> None,
                result |-> "Ok", before |-> NoRow, data |-> NoRow]
    /\ UNCHANGED <<role, trips, now, reqs, writes>>

\* the values a validated edit sets: verified, verified_at, license_expiry
\* (a day before today, a day after it, or none)
ProfileEdits ==
    [verified : BOOLEAN, verified_at : {None, Some(0)},
     license_expiry : {None, Some(0), Some(9)}]

\* the fields are set on the profile, full_clean() runs clean(), and the
\* profile is saved when that raised nothing
clean_and_save(u, e) ==
    /\ u \in DOMAIN role
    /\ hasattr(db, u, "driver_profile")
    /\ LET pk == CHOOSE k \in Related(db, "driver_profile", u) : TRUE
           obj == [db["driver_profile"].rows[pk] EXCEPT
                     !.verified = e.verified,
                     !.verified_at = e.verified_at,
                     !.license_expiry = e.license_expiry]
       IN /\ db' = IF DriverProfile_clean(obj)
                   THEN [db EXCEPT !["driver_profile"].rows[pk] = obj]
                   ELSE db
          /\ resp' = [op |-> "clean_and_save", user |-> u, id |-> pk, arg |-> Some(e),
                      result |-> IF DriverProfile_clean(obj) THEN "Ok"
                                 ELSE "ValidationError",
                      before |-> NoRow, data |-> NoRow]
    /\ UNCHANGED <<role, trips, now, reqs, writes>>

\* the driver whose profile is verified and edited
Verified == {"u2"}

MarkVerified == \E u \in Verified : mark_verified(u)

CleanAndSave == \E u \in Verified, e \in ProfileEdits : clean_and_save(u, e)

NextVerify == UpdateUser \/ MarkVerified \/ CleanAndSave

SpecVerify == Init /\ [][NextVerify]_vars

(* ------------------------------------------------------------------ *)
(* vehicles: VehicleViewSet, a ModelViewSet over the vehicles of the   *)
(* requesting user. SpecVehicles: vehicles exist for the users of Init *)
(* and every caller, signed in or not, calls the five endpoints.       *)
(* ------------------------------------------------------------------ *)
MaxVehicles == 2

Brands == {"Toyota", "Honda"}

\* the request's user: a user of the table, or AnonymousUser
Requesters == Users \cup {"AnonymousUser"}

\* Vehicle.objects.create(driver=u, brand=b, ...)
Vehicle_objects_create(u, b) ==
    /\ u \in DOMAIN role
    /\ Cardinality(DOMAIN db["vehicle"].rows) < MaxVehicles
    /\ db' = [db EXCEPT !["vehicle"] =
                [rows |-> @.rows @@ ((@.last_pk + 1) :> [driver |-> u, brand |-> b]),
                 last_pk |-> @.last_pk + 1]]
    /\ resp' = [op |-> "vehicle_objects_create", user |-> u, id |-> db["vehicle"].last_pk + 1,
                arg |-> Some(b), result |-> "Ok", before |-> NoRow, data |-> NoRow]
    /\ UNCHANGED <<role, trips, now, reqs, writes>>

IsAuthenticated(u) == u \in DOMAIN role

IsCompanyDriver(u) == role[u] = "COMPANY_DRIVER"

IsIndividualDriver(u) == role[u] = "INDIVIDUAL_DRIVER"

has_permission(p, u) ==
    CASE p = "IsAuthenticated"     -> IsAuthenticated(u)
      [] p = "IsCompanyDriver"     -> IsCompanyDriver(u)
      [] p = "IsIndividualDriver"  -> IsIndividualDriver(u)
      [] p = "IsTripCreator"       -> TRUE

\* VehicleViewSet.permission_classes: a list, of which every member has
\* to grant the request
permission_classes == <<"IsAuthenticated", "IsCompanyDriver", "IsIndividualDriver">>

\* APIView.permission_denied
permission_denied(u) ==
    IF IsAuthenticated(u) THEN "PermissionDenied" ELSE "NotAuthenticated"

\* APIView.check_permissions: the first permission that refuses ends the
\* request
RECURSIVE check_permissions(_, _)
check_permissions(ps, u) ==
    IF ps = <<>> THEN "Ok"
    ELSE IF ~has_permission(Head(ps), u) THEN permission_denied(u)
    ELSE check_permissions(Tail(ps), u)

\* VehicleViewSet.get_queryset
vehicle_get_queryset(u) == Related(db, "vehicle", u)

VehicleResp(op, u, id, arg, result, data) ==
    [op |-> op, user |-> u, id |-> id, arg |-> arg, result |-> result,
     before |-> IF id \in DOMAIN db["vehicle"].rows THEN db["vehicle"].rows[id]
                ELSE NoRow,
     data |-> data]

vehicle_list(u) ==
    /\ LET p == check_permissions(permission_classes, u)
       IN resp' = IF p # "Ok"
                  THEN VehicleResp("vehicle_list", u, 0, None, p, NoRow)
                  ELSE VehicleResp("vehicle_list", u, 0, None, "Ok",
                                   [ids |-> vehicle_get_queryset(u)])
    /\ UNCHANGED <<role, trips, now, reqs, writes, db>>

vehicle_retrieve(u, id) ==
    /\ LET p == check_permissions(permission_classes, u)
       IN resp' = IF p # "Ok"
                  THEN VehicleResp("vehicle_retrieve", u, id, None, p, NoRow)
                  ELSE IF id \notin vehicle_get_queryset(u)
                  THEN VehicleResp("vehicle_retrieve", u, id, None, "NotFound", NoRow)
                  ELSE VehicleResp("vehicle_retrieve", u, id, None, "Ok",
                                   db["vehicle"].rows[id])
    /\ UNCHANGED <<role, trips, now, reqs, writes, db>>

\* create, with perform_create: serializer.save(driver=request.user)
vehicle_create(u, b) ==
    /\ LET p == check_permissions(permission_classes, u)
           id == db["vehicle"].last_pk + 1
       IN IF p # "Ok"
          THEN /\ resp' = VehicleResp("vehicle_create", u, 0, Some(b), p, NoRow)
               /\ db' = db
          ELSE /\ db' = [db EXCEPT !["vehicle"] =
                           [rows |-> @.rows @@ (id :> [driver |-> u, brand |-> b]),
                            last_pk |-> id]]
               /\ resp' = VehicleResp("vehicle_create", u, id, Some(b), "Ok",
                                      [driver |-> u, brand |-> b])
    /\ UNCHANGED <<role, trips, now, reqs, writes>>

vehicle_update(u, id, b) ==
    /\ LET p == check_permissions(permission_classes, u)
       IN IF p # "Ok"
          THEN /\ resp' = VehicleResp("vehicle_update", u, id, Some(b), p, NoRow)
               /\ db' = db
          ELSE IF id \notin vehicle_get_queryset(u)
          THEN /\ resp' = VehicleResp("vehicle_update", u, id, Some(b), "NotFound", NoRow)
               /\ db' = db
          ELSE /\ db' = [db EXCEPT !["vehicle"].rows[id].brand = b]
               /\ resp' = VehicleResp("vehicle_update", u, id, Some(b), "Ok",
                                      [db["vehicle"].rows[id] EXCEPT !.brand = b])
    /\ UNCHANGED <<role, trips, now, reqs, writes>>

vehicle_destroy(u, id) ==
    /\ LET p == check_permissions(permission_classes, u)
       IN IF p # "Ok"
          THEN /\ resp' = VehicleResp("vehicle_destroy", u, id, None, p, NoRow)
               /\ db' = db
          ELSE IF id \notin vehicle_get_queryset(u)
          THEN /\ resp' = VehicleResp("vehicle_destroy", u, id, None, "NotFound", NoRow)
               /\ db' = db
          ELSE /\ db' = [db EXCEPT !["vehicle"].rows =
                           [pk \in DOMAIN @ \ {id} |-> @[pk]]]
               /\ resp' = VehicleResp("vehicle_destroy", u, id, None, "Ok", NoRow)
    /\ UNCHANGED <<role, trips, now, reqs, writes>>

VehicleIds == 1..MaxVehicles

VehicleSeed == \E u \in Users, b \in Brands : Vehicle_objects_create(u, b)

VehicleList == \E u \in Requesters : vehicle_list(u)

VehicleRetrieve == \E u \in Requesters, id \in VehicleIds : vehicle_retrieve(u, id)

VehicleCreate == \E u \in Requesters, b \in Brands : vehicle_create(u, b)

VehicleUpdate == \E u \in Requesters, id \in VehicleIds, b \in Brands : vehicle_update(u, id, b)

VehicleDestroy == \E u \in Requesters, id \in VehicleIds : vehicle_destroy(u, id)

NextVehicles ==
    \/ VehicleSeed
    \/ VehicleList
    \/ VehicleRetrieve
    \/ VehicleCreate
    \/ VehicleUpdate
    \/ VehicleDestroy

SpecVehicles == Init /\ [][NextVehicles]_vars

(* ------------------------------------------------------------------ *)
(* SpecHttp: the trip actions as requests. A request passes the view's *)
(* initial() (check_permissions over the permission classes in force   *)
(* for the action), then get_object() (the queryset of the requesting  *)
(* user, then check_object_permissions), then the handler body. Every  *)
(* user and a caller who is not signed in send every request.          *)
(* ------------------------------------------------------------------ *)
\* the classes given to @action for start and cancel, and the classes of
\* TripViewSet for assign and confirm (the permission_classes parameter of
\* assign is a default argument that nothing reads)
get_permissions(op) ==
    IF op \in {"start", "cancel"}
    THEN <<"IsCompanyDriver", "IsIndividualDriver">>
    ELSE <<"IsAuthenticated", "IsTripCreator">>

\* has_object_permission of a class on a POST; IsTripCreator defines it, the
\* others inherit BasePermission's
has_object_permission(p, u, obj) ==
    IF p = "IsTripCreator" THEN obj.company = u ELSE TRUE

\* APIView.check_object_permissions
check_object_permissions(ps, u, obj) ==
    IF \A i \in DOMAIN ps : has_object_permission(ps[i], u, obj)
    THEN "Ok" ELSE permission_denied(u)

Refused(op, u, id, arg, why) ==
    /\ resp' = [op |-> op, user |-> u, id |-> id, arg |-> arg, result |-> why,
                before |-> NoRow, data |-> NoRow]
    /\ UNCHANGED <<role, trips, now, reqs, writes, db>>

\* a request that reaches the handler body whoever sends it
dispatch_unchecked(op, u, id, arg, draw) ==
    /\ id \in DOMAIN trips
    /\ LET out == Body(op, trips[id], arg, draw) IN
         /\ resp' = [op |-> op, user |-> u, id |-> id, arg |-> arg,
                     result |-> out.result, before |-> trips[id], data |-> NoRow]
         /\ IF out.fields = {}
            THEN UNCHANGED <<trips, now, writes>>
            ELSE /\ trips' = [trips EXCEPT ![id] = Save(@, out.obj, out.fields)]
                 /\ writes' = [writes EXCEPT ![id][op] = @ + 1]
                 /\ now' = now + 1
    /\ UNCHANGED <<role, reqs, db>>

\* APIView.dispatch for a detail action of TripViewSet; AnonymousUser has
\* no role attribute, so a role class that is asked first raises
dispatch(op, u, id, arg, draw) ==
    /\ id \in TripIds
    /\ IF ~IsAuthenticated(u) /\ Head(get_permissions(op)) # "IsAuthenticated"
       THEN Refused(op, u, id, arg, "AttributeError")
       ELSE IF check_permissions(get_permissions(op), u) # "Ok"
       THEN Refused(op, u, id, arg, check_permissions(get_permissions(op), u))
       ELSE IF /\ get_object(u, id) # None
               /\ check_object_permissions(get_permissions(op), u, get_object(u, id)[1]) # "Ok"
       THEN Refused(op, u, id, arg, "PermissionDenied")
       ELSE Serve(op, u, id, arg, draw)

AssignRequest ==
    \E u \in Requesters, id \in TripIds, cand \in Candidates :
        \E draw \in Draws(u, id, cand) : dispatch("assign", u, id, cand, draw)

StartRequest == \E u \in Requesters, id \in TripIds : dispatch("start", u, id, None, RandLo)

ConfirmRequest ==
    \E u \in Requesters, id \in TripIds, otp \in SuppliedOtps :
        dispatch("confirm", u, id, otp, RandLo)

CancelRequest == \E u \in Requesters, id \in TripIds : dispatch("cancel", u, id, None, RandLo)

NextHttp == Create \/ AssignRequest \/ StartRequest \/ ConfirmRequest \/ CancelRequest

SpecHttp == Init /\ [][NextHttp]_vars

(* ------------------------------------------------------------------ *)
(* SpecRoles: the trip actions on trips created with the model         *)
(* defaults, while users are saved with other roles.                   *)
(* ------------------------------------------------------------------ *)
UpdateUserRole == \E u \in Editors, r \in Roles : save_user(u, r)

NextRoles ==
    \/ CreatePlain
    \/ Assign
    \/ Start
    \/ Confirm
    \/ Cancel
    \/ UpdateUserRole

SpecRoles == Init /\ [][NextRoles]_vars

(* ================================================================== *)
(* Properties                                                          *)
(* ================================================================== *)
\* the edges of the trip state graph of the specification
LegalEdges == {<<"PENDING", "ASSIGNED">>, <<"ASSIGNED", "IN_PROGRESS">>,
               <<"IN_PROGRESS", "COMPLETED">>, <<"PENDING", "CANCELLED">>}

\* the last request was this detail action and get_object() found the trip;
\* resp.before is the row it read, trips[resp.id] the row it left
Served(op) == resp.op = op /\ resp.result \notin {"none", "NotFound"}

Unchanged == trips[resp.id] = resp.before

RECURSIVE Val(_)
Val(s) == IF s = <<>> THEN 0 ELSE 10 * Val(SubSeq(s, 1, Len(s) - 1)) + s[Len(s)]

\* a nullable string that holds six decimal digits, the number 100000..999999
IsSixDigitCode(o) ==
    /\ o # None
    /\ Len(o[1]) = 6
    /\ \A i \in 1..6 : o[1][i] \in 0..9
    /\ Val(o[1]) \in 100000..999999

(* C1: over any sequence of Create, Assign, Start, Confirm and Cancel   *)
(* calls, a trip's status changes only along PENDING->ASSIGNED,          *)
(* ASSIGNED->IN_PROGRESS, IN_PROGRESS->COMPLETED and PENDING->CANCELLED. *)
C1_OnlyLegalEdges ==
    \A op \in Actions :
        Served(op) /\ trips[resp.id].status # resp.before.status
            => <<resp.before.status, trips[resp.id].status>> \in LegalEdges

(* C2: of two Assign calls on the same trip that run concurrently, never *)
(* both succeed.                                                         *)
C2_AtMostOneAssignSucceeds ==
    \A r1, r2 \in ReqIds :
        (/\ r1 # r2
         /\ reqs[r1].op = "assign" /\ reqs[r2].op = "assign"
         /\ reqs[r1].id = reqs[r2].id
         /\ reqs[r1].pc = "done" /\ reqs[r2].pc = "done")
            => ~(reqs[r1].result = "Ok" /\ reqs[r2].result = "Ok")

\* how far along its lifecycle a status is; COMPLETED and CANCELLED end it
Rank(st) == CASE st = "PENDING" -> 0
              [] st = "ASSIGNED" -> 1
              [] st = "IN_PROGRESS" -> 2
              [] OTHER -> 3

Terminal == {"COMPLETED", "CANCELLED"}

(* C3: under any interleaving of concurrent Assign, Start, Confirm and   *)
(* Cancel calls, each transition's field-set is written to a trip at     *)
(* most once, the status never regresses and a terminal status is never  *)
(* left. (The claim's clauses as it spells them out; a step off the      *)
(* legal edges that still advances, which C1 is about, does not count    *)
(* here, so that only an interleaving can break it.)                     *)
C3_SingleWriteNoRegress ==
    [][\A id \in DOMAIN trips :
          /\ \A a \in Actions : writes'[id][a] <= 1
          /\ Rank(trips'[id].status) >= Rank(trips[id].status)
          /\ (trips[id].status \in Terminal => trips'[id].status = trips[id].status)]_vars

C5_CodeOnlyWhileAssignedOrInProgress ==
    \A id \in DOMAIN trips :
        trips[id].otp_code # None => trips[id].status \in {"ASSIGNED", "IN_PROGRESS"}

(* C6: once a Confirm has succeeded on a trip, no Confirm succeeds on it *)
(* again: every later Confirm answers OtpNotIssued and leaves the trip   *)
(* as it was.                                                            *)
C6_ConfirmOnlyOnce ==
    /\ \A id \in DOMAIN trips : writes[id]["confirm"] <= 1
    /\ (Served("confirm") /\ resp.result # "Ok" /\ writes[resp.id]["confirm"] = 1)
          => resp.result = "OtpNotIssued" /\ Unchanged

C6_Witness ==
    /\ Served("confirm")
    /\ writes[resp.id]["confirm"] = 1
    /\ resp.arg = Some(Str(482913))
    /\ resp.result = "OtpNotIssued"
    /\ trips[resp.id].status = "COMPLETED"

(* C7: Assign with a candidate whose role is not COMPANY_DRIVER never    *)
(* succeeds and leaves the trip as it was; on a PENDING trip its answer  *)
(* is InvalidAssignee.                                                   *)
C7_IneligibleCandidateRejected ==
    (Served("assign") /\ resp.arg # None /\ role[resp.arg[1]] # "COMPANY_DRIVER")
        => /\ resp.result # "Ok"
           /\ Unchanged
           /\ (resp.before.status = "PENDING" => resp.result = "InvalidAssignee")

C7_Witness ==
    /\ Served("assign")
    /\ resp.before.status = "PENDING"
    /\ resp.arg = Some("u3")
    /\ resp.result = "InvalidAssignee"

(* C8: Assign on a PENDING trip with a COMPANY_DRIVER candidate X        *)
(* succeeds, and a successful Assign leaves the trip ASSIGNED with       *)
(* driver X, assigned_at set and a six-digit numeric otp_code.           *)
C8_AssignEffect ==
    /\ (Served("assign") /\ resp.before.status = "PENDING"
          /\ resp.arg # None /\ role[resp.arg[1]] = "COMPANY_DRIVER")
          => resp.result = "Ok"
    /\ (Served("assign") /\ resp.result = "Ok")
          => /\ trips[resp.id].status = "ASSIGNED"
             /\ trips[resp.id].driver = resp.arg
             /\ trips[resp.id].assigned_at # None
             /\ IsSixDigitCode(trips[resp.id].otp_code)

C8_Witness ==
    /\ Served("assign")
    /\ resp.result = "Ok"
    /\ resp.before.status = "PENDING"
    /\ resp.before.otp_code = None
    /\ resp.arg = Some("u2")
    /\ trips[resp.id].otp_code = Some(<<1, 0, 0, 0, 0, 0>>)

(* C9: Confirm on a trip without a code answers OtpNotIssued; Confirm on *)
(* a trip with a code, given a code that is not equal to it (or none),   *)
(* answers OtpMismatch; both leave the trip as it was.                   *)
C9_ConfirmFailures ==
    /\ (Served("confirm") /\ resp.before.otp_code = None)
          => resp.result = "OtpNotIssued" /\ Unchanged
    /\ (Served("confirm") /\ resp.before.otp_code # None
          /\ resp.arg # resp.before.otp_code)
          => resp.result = "OtpMismatch" /\ Unchanged

C9_Witness ==
    /\ Served("confirm")
    /\ resp.before.status = "IN_PROGRESS"
    /\ resp.before.otp_code = Some(Str(482913))
    /\ resp.arg = Some(<<0, 0, 0, 0, 0, 0>>)
    /\ resp.result = "OtpMismatch"

(* C10: Confirm on an IN_PROGRESS trip, given exactly the stored code,   *)
(* succeeds and leaves the trip COMPLETED with completed_at set and no   *)
(* code.                                                                 *)
C10_ConfirmEffect ==
    (Served("confirm") /\ resp.before.status = "IN_PROGRESS"
       /\ resp.before.otp_code # None /\ resp.arg = resp.before.otp_code)
        => /\ resp.result = "Ok"
           /\ trips[resp.id].status = "COMPLETED"
           /\ trips[resp.id].completed_at # None
           /\ trips[resp.id].otp_code = None

C10_Witness ==
    /\ Served("confirm")
    /\ resp.result = "Ok"
    /\ resp.before.status = "IN_PROGRESS"
    /\ resp.before.started_at = Some(2)
    /\ trips[resp.id].status = "COMPLETED"
    /\ trips[resp.id].otp_code = None

C13_CreateIsBlank ==
    resp.op = "create"
        => /\ trips[resp.id].status = "PENDING"
           /\ trips[resp.id].company = resp.user
           /\ \A f \in TripFields \ {"status", "company"} : trips[resp.id][f] = None

\* the columns each transition is to write, as the specification lists them
UpdateFields(op) ==
    CASE op = "assign"  -> {"otp_code", "driver", "status", "assigned_at"}
      [] op = "start"   -> {"status", "started_at"}
      [] op = "confirm" -> {"status", "completed_at", "otp_code"}
      [] op = "cancel"  -> {"otp_code", "status", "cancelled_at"}

(* C14: every step that changes a stored trip is the write of one        *)
(* transition and changes none of the columns outside that transition's  *)
(* list, also when the copy the handler works on was read before another *)
(* request wrote the row.                                                *)
C14_WritesOnlyEnumerated ==
    [][\A id \in DOMAIN trips :
          trips'[id] # trips[id]
            => \E op \in Actions :
                 /\ writes'[id][op] = writes[id][op] + 1
                 /\ \A f \in TripFields \ UpdateFields(op) :
                        trips'[id][f] = trips[id][f]]_vars

\* cancel wrote from a copy read before assign wrote: the row is CANCELLED
\* and still carries the driver and assigned_at that assign stored
C14_Witness ==
    \E r1, r2 \in ReqIds :
        /\ reqs[r1].pc = "done" /\ reqs[r1].op = "cancel" /\ reqs[r1].result = "Ok"
        /\ reqs[r2].pc = "done" /\ reqs[r2].op = "assign" /\ reqs[r2].result = "Ok"
        /\ reqs[r1].id = reqs[r2].id
        /\ reqs[r1].obj.driver = None
        /\ trips[reqs[r1].id].status = "CANCELLED"
        /\ trips[reqs[r1].id].driver = Some("u2")
        /\ trips[reqs[r1].id].assigned_at # None

\* the values the otp_code column of a stored trip takes in the model
StoredCodes == {None} \cup {Some(Str(n)) : n \in RandDraws}

(* C15: what a retrieve returns to a caller who is not the trip's        *)
(* assigned driver does not depend on otp_code: had the row held any     *)
(* other code, and nothing else differed, the response would be the same.*)
C15_CodeNotObservable ==
    (resp.op = "retrieve" /\ resp.result = "Ok"
       /\ resp.before.driver # Some(resp.user))
        => \A c \in StoredCodes :
             to_representation([resp.before EXCEPT !.otp_code = c]) = resp.data

(* C16: a step removes a trip only if it removes the trip's dispatching  *)
(* company user; deleting a user who is just the trip's assigned driver  *)
(* leaves the trip in the table.                                         *)
C16_TripOutlivesDriver ==
    [][\A id \in DOMAIN trips :
          id \notin DOMAIN trips' => trips[id].company \notin DOMAIN role']_vars

\* the tables in which role r calls for a row of the user (specification 4.1)
Required(r) ==
    CASE r = "ADMIN"         -> {"profile"}
      [] r = "COMPANY_OWNER" -> {"driver_profile", "owned_company"}
      [] OTHER               -> {"driver_profile"}

Has(u) == {t \in Tables : hasattr(db, u, t)}

(* C17: whatever users were created and however often they were saved,  *)
(* with the same role or another, no user has two AdminProfiles, two     *)
(* DriverProfiles or two owned Companies.                                *)
C17_AtMostOneOfEach ==
    \A u \in Users, t \in Tables : Cardinality(Related(db, t, u)) <= 1

\* a save that left the role as it was, of a user who holds all three rows
C17_Witness ==
    /\ resp.op = "save_user"
    /\ resp.before.role = "COMPANY_OWNER"
    /\ role[resp.user] = "COMPANY_OWNER"
    /\ Has(resp.user) = Tables

C20_SaveKeepsRows ==
    [][resp'.op = "save_user"
         => \A t \in Tables : \A pk \in DOMAIN db[t].rows :
              pk \in DOMAIN db'[t].rows /\ db'[t].rows[pk] = db[t].rows[pk]]_vars

\* an ADMIN turned driver: the profile made at creation is still there
C20_Witness ==
    /\ resp.op = "save_user"
    /\ resp.before.role = "ADMIN"
    /\ role[resp.user] = "INDIVIDUAL_DRIVER"
    /\ Has(resp.user) = {"profile", "driver_profile"}

(* C21: saving a user again with the role it was just saved with adds no *)
(* row and removes none: the tables after the second and every later     *)
(* save are the tables after the first, and the save raises no error.    *)
C21_SaveIdempotent ==
    [][(/\ resp.op = "save_user"
        /\ resp'.op = "save_user"
        /\ resp'.user = resp.user
        /\ role'[resp.user] = role[resp.user])
          => db' = db /\ resp'.result = "Ok"]_vars

\* u1 became an owner after u2 was created as one, and was saved as an
\* owner again: its company is the second row, and it has one of each
C21_Witness ==
    /\ resp.op = "save_user"
    /\ resp.user = "u1"
    /\ resp.before.role = "COMPANY_OWNER"
    /\ role["u1"] = "COMPANY_OWNER"
    /\ Related(db, "owned_company", "u1") = {2}
    /\ Related(db, "driver_profile", "u1") = {1}
    /\ db["owned_company"].last_pk = 2

(* C22: a user creation or save whose receivers fail to create a row     *)
(* (the INSERT is rejected, or the code raises) still succeeds, and the  *)
(* user's stored role is the role that was written.                      *)
C22_FailureNotPropagated ==
    resp.op \in {"create_user", "save_user"}
        => resp.result = "Ok" /\ role[resp.user] = resp.arg[1]

\* an ADMIN saved as COMPANY_OWNER while the INSERTs failed: the role is
\* written, no DriverProfile or Company came to exist
C22_Witness ==
    /\ resp.op = "save_user"
    /\ resp.result = "Ok"
    /\ resp.before.role = "ADMIN"
    /\ role[resp.user] = "COMPANY_OWNER"
    /\ Has(resp.user) = {"profile"}

(* C23: a save of a user changes no row that exists: a Company keeps the *)
(* name, email and phone_number it was created with, also when the user  *)
(* is saved with another name, address or number, and a DriverProfile    *)
(* keeps its data.                                                       *)
C23_SaveLeavesRowsAlone ==
    [][resp'.op = "save_user"
         => /\ \A pk \in DOMAIN db["owned_company"].rows :
                 /\ pk \in DOMAIN db'["owned_company"].rows
                 /\ \A c \in {"name", "email", "phone_number"} :
                      db'["owned_company"].rows[pk][c] = db["owned_company"].rows[pk][c]
            /\ \A pk \in DOMAIN db["driver_profile"].rows :
                 /\ pk \in DOMAIN db'["driver_profile"].rows
                 /\ db'["driver_profile"].rows[pk] = db["driver_profile"].rows[pk]]_vars

\* the owner is Roe now; the company still carries Doe, and the profile the
\* license number that was entered
C23_Witness ==
    /\ resp.op = "save_user"
    /\ resp.user = "u1"
    /\ role["u1"] = "INDIVIDUAL_DRIVER"
    /\ UserRow(db, "u1").last_name = "Roe"
    /\ \E pk \in Related(db, "owned_company", "u1") :
         /\ db["owned_company"].rows[pk].name = <<"u1", " ", "Doe", "'s Company">>
         /\ db["owned_company"].rows[pk].email = <<"u1", "@", "Doe">>
    /\ \E pk \in Related(db, "driver_profile", "u1") :
         db["driver_profile"].rows[pk].license_number = <<"D", "L", 1>>
    /\ \E pk \in Related(db, "owned_company", "u2") :
         db["owned_company"].rows[pk].name = <<"u2", " ", "Roe", "'s Company">>
    /\ UserRow(db, "u2").last_name = "Doe"

(* C24: a company has its invite_code from its first save on: in every   *)
(* step the code of a company that exists is not empty and is the code   *)
(* it had before the step, and no two companies have the same code.      *)
C24_InviteCodeOnce ==
    [][/\ \A pk \in DOMAIN db'["owned_company"].rows :
            /\ db'["owned_company"].rows[pk].invite_code # <<>>
            /\ pk \in DOMAIN db["owned_company"].rows
                 => db'["owned_company"].rows[pk].invite_code
                      = db["owned_company"].rows[pk].invite_code
       /\ \A p, q \in DOMAIN db'["owned_company"].rows :
            p # q => db'["owned_company"].rows[p].invite_code
                       # db'["owned_company"].rows[q].invite_code]_vars

\* the second company, made when u2 became an owner, after a save of it
\* under another name
C24_Witness ==
    /\ resp.op = "save_company"
    /\ resp.user = "u2"
    /\ resp.id = 2
    /\ db["owned_company"].rows[2].name = <<"Acme">>
    /\ db["owned_company"].rows[2].invite_code = hashids_encode(2)
    /\ db["owned_company"].rows[1].invite_code = hashids_encode(1)
    /\ Len(db["owned_company"].rows[2].invite_code) = CodeLen

(* C25: deleting a user removes every Company, DriverProfile and         *)
(* AdminProfile of that user and no row of another user, and after every *)
(* step each row of these tables belongs to a user that exists.          *)
C25_DeleteCascades ==
    [][/\ resp'.op = "delete_user"
            => \A t \in Tables : \A pk \in DOMAIN db[t].rows :
                 IF db[t].rows[pk].user = resp'.user
                 THEN pk \notin DOMAIN db'[t].rows
                 ELSE pk \in DOMAIN db'[t].rows
                        /\ db'[t].rows[pk] = db[t].rows[pk]
       /\ \A t \in Tables : \A pk \in DOMAIN db'[t].rows :
            db'[t].rows[pk].user \in DOMAIN role']_vars

\* u2 had become an owner and was deleted: its company and profile are
\* gone, those of u1 and the profile of u4 are there
C25_Witness ==
    /\ resp.op = "delete_user"
    /\ resp.user = "u2"
    /\ db["owned_company"].last_pk = 2
    /\ DOMAIN db["owned_company"].rows = {1}
    /\ DOMAIN db["driver_profile"].rows = {1, 3}
    /\ DOMAIN db["profile"].rows = {1}
    /\ "u2" \notin DOMAIN role

(* C26: every driver profile that is verified has verified_at set: a     *)
(* profile starts unverified, mark_verified sets both columns, and a     *)
(* validated edit that sets verified without verified_at is rejected.    *)
C26_VerifiedHasDate ==
    /\ \A pk \in DOMAIN db["driver_profile"].rows :
         db["driver_profile"].rows[pk].verified
            => db["driver_profile"].rows[pk].verified_at # None
    /\ resp.op = "mark_verified"
         => \A pk \in Related(db, "driver_profile", resp.user) :
              /\ db["driver_profile"].rows[pk].verified
              /\ db["driver_profile"].rows[pk].verified_at # None
    /\ (resp.op = "clean_and_save" /\ resp.arg[1].verified
          /\ resp.arg[1].verified_at = None)
         => resp.result = "ValidationError"

\* the edit was rejected and left the profile as mark_verified had made it
C26_Witness ==
    /\ resp.op = "clean_and_save"
    /\ resp.result = "ValidationError"
    /\ resp.arg[1].verified /\ resp.arg[1].verified_at = None
    /\ resp.arg[1].license_expiry = Some(9)
    /\ db["driver_profile"].rows[resp.id].verified
    /\ db["driver_profile"].rows[resp.id].verified_at = Some(now)
    /\ db["driver_profile"].rows[1].verified = FALSE

(* C27: is_driver is true for a user whose role is COMPANY_OWNER,        *)
(* COMPANY_DRIVER or INDIVIDUAL_DRIVER and false for an ADMIN, whatever  *)
(* roles the user had before.                                            *)
C27_IsDriverFollowsRole ==
    \A u \in DOMAIN role :
        /\ role[u] = "COMPANY_OWNER" => is_driver(role[u])
        /\ role[u] = "COMPANY_DRIVER" => is_driver(role[u])
        /\ role[u] = "INDIVIDUAL_DRIVER" => is_driver(role[u])
        /\ role[u] = "ADMIN" => ~is_driver(role[u])

\* an ADMIN has just become an owner and a former driver is now an ADMIN
C27_Witness ==
    /\ resp.op = "save_user"
    /\ resp.before.role = "ADMIN"
    /\ role[resp.user] = "COMPANY_OWNER"
    /\ is_driver(role[resp.user])
    /\ \E v \in DOMAIN role :
          /\ role[v] = "ADMIN" /\ ~is_driver(role[v])
          /\ hasattr(db, v, "driver_profile")

\* the five endpoints of the ModelViewSet
VehicleOps ==
    {"vehicle_list", "vehicle_retrieve", "vehicle_create", "vehicle_update",
     "vehicle_destroy"}

(* C28: on the vehicle endpoints an authenticated INDIVIDUAL_DRIVER,     *)
(* COMPANY_DRIVER or COMPANY_OWNER is not forbidden, an authenticated    *)
(* ADMIN is forbidden and a caller who is not signed in is rejected as   *)
(* unauthenticated.                                                      *)
C28_VehicleAccessByRole ==
    resp.op \in VehicleOps
        => IF resp.user \notin DOMAIN role THEN resp.result = "NotAuthenticated"
           ELSE IF role[resp.user] = "ADMIN" THEN resp.result = "PermissionDenied"
           ELSE resp.result # "PermissionDenied"

(* C29: a retrieve, update or delete of a vehicle by a driver who is not *)
(* the vehicle's driver answers NotFound and leaves the vehicle as it    *)
(* was; a driver's list holds exactly the driver's vehicles; a vehicle   *)
(* that create made belongs to the requesting user.                      *)
C29_OwnVehiclesOnly ==
    (resp.op \in VehicleOps /\ resp.user \in DOMAIN role /\ is_driver(role[resp.user]))
        => /\ (/\ resp.op \in {"vehicle_retrieve", "vehicle_update", "vehicle_destroy"}
               /\ resp.before # NoRow
               /\ resp.before.driver # resp.user)
                 => /\ resp.result = "NotFound"
                    /\ resp.id \in DOMAIN db["vehicle"].rows
                    /\ db["vehicle"].rows[resp.id] = resp.before
           /\ resp.op = "vehicle_list"
                 => /\ resp.result = "Ok"
                    /\ resp.data = [ids |-> Related(db, "vehicle", resp.user)]
           /\ (resp.op = "vehicle_create" /\ resp.result = "Ok")
                 => db["vehicle"].rows[resp.id].driver = resp.user

(* C30: without interleaving, every trip that is ASSIGNED or IN_PROGRESS *)
(* has a code and a driver, so that a confirm with the right code can    *)
(* complete it.                                                          *)
C30_ActiveTripHasCodeAndDriver ==
    \A id \in DOMAIN trips :
        trips[id].status \in {"ASSIGNED", "IN_PROGRESS"}
            => /\ trips[id].otp_code # None
               /\ trips[id].driver # None

(* C31: without interleaving, the timestamps of a trip agree with its   *)
(* status: assigned_at and driver are set exactly when the status is    *)
(* ASSIGNED, IN_PROGRESS or COMPLETED, completed_at exactly when it is  *)
(* COMPLETED, cancelled_at exactly when it is CANCELLED, started_at     *)
(* only when it is IN_PROGRESS or COMPLETED, and a CANCELLED trip has   *)
(* no driver.                                                           *)
C31_TimestampsAgreeWithStatus ==
    \A id \in DOMAIN trips :
        LET t == trips[id]
        IN /\ (t.assigned_at # None) <=> (t.status \in {"ASSIGNED", "IN_PROGRESS", "COMPLETED"})
           /\ (t.driver # None) <=> (t.status \in {"ASSIGNED", "IN_PROGRESS", "COMPLETED"})
           /\ (t.completed_at # None) <=> (t.status = "COMPLETED")
           /\ (t.cancelled_at # None) <=> (t.status = "CANCELLED")
           /\ (t.started_at # None) => (t.status \in {"IN_PROGRESS", "COMPLETED"})
           /\ (t.status = "CANCELLED") => (t.driver = None)

C33_StartAndCancelCallable ==
    \A op \in {"start", "cancel"} :
        \E u \in DOMAIN role : check_permissions(get_permissions(op), u) = "Ok"

(* C34: a trip action of a user who is not the trip's company answers   *)
(* NotFound or PermissionDenied and changes no trip, and the status of  *)
(* a trip changes only in a request of its company.                     *)
C34_OnlyCompanyActs ==
    [][/\ (/\ resp'.op \in Actions
           /\ resp'.user \in DOMAIN role
           /\ resp'.id \in DOMAIN trips
           /\ trips[resp'.id].company # resp'.user)
             => /\ resp'.result \in {"NotFound", "PermissionDenied"}
                /\ trips' = trips
       /\ \A id \in DOMAIN trips :
            (id \in DOMAIN trips' /\ trips'[id].status # trips[id].status)
                => resp'.user = trips[id].company]_vars

\* a company driver's assign of a PENDING trip of u1 found no such trip
C34_Witness ==
    /\ resp.op = "assign"
    /\ resp.user = "u2"
    /\ resp.arg = Some("u2")
    /\ resp.result = "NotFound"
    /\ resp.id \in DOMAIN trips
    /\ trips[resp.id].company = "u1"
    /\ trips[resp.id].status = "PENDING"

(* C35: whatever trip actions and role changes have happened, the       *)
(* driver of a trip is a user whose role is COMPANY_DRIVER now.         *)
C35_DriverStaysEligible ==
    \A id \in DOMAIN trips :
        trips[id].driver # None
            => /\ trips[id].driver[1] \in DOMAIN role
               /\ role[trips[id].driver[1]] = "COMPANY_DRIVER"

(* C36: the reconciliation of a save adds every row that the new role    *)
(* calls for and the user lacked, or it adds none: when the Company of a *)
(* new COMPANY_OWNER cannot be created, the DriverProfile created before *)
(* it in the same reconciliation is gone again.                          *)
C36_ReconcileAllOrNothing ==
    resp.op = "save_user"
        => LET added == Has(resp.user) \ resp.before.has
               missing == Required(role[resp.user]) \ resp.before.has
           IN /\ added \in {{}, missing}
              /\ resp.data.faults \cap missing # {} => added = {}

\* an ADMIN without DriverProfile and Company was saved as COMPANY_OWNER,
\* only the Company was refused, and no DriverProfile is left
C36_Witness ==
    /\ resp.op = "save_user"
    /\ resp.before.role = "ADMIN"
    /\ resp.before.has = {"profile"}
    /\ role[resp.user] = "COMPANY_OWNER"
    /\ resp.data.faults = {"owned_company"}
    /\ Has(resp.user) = {"profile"}

(* C37: however the reconciliations of concurrent saves of a user        *)
(* interleave, the user has at most one row in each accounts table, a    *)
(* creation that lost against the other's row ends without an error for  *)
(* the saver, and the role stored is the role of one of the saves.       *)
C37_ConcurrentReconcile ==
    /\ \A u \in DOMAIN role : \A t \in Tables : Cardinality(Related(db, t, u)) <= 1
    /\ \A r \in ReqIds :
         /\ reqs[r].pc = "done" => reqs[r].result = "Ok"
         /\ reqs[r].pc # "idle"
              => \E q \in ReqIds : /\ reqs[q].pc # "idle"
                                   /\ reqs[q].user = reqs[r].user
                                   /\ role[reqs[r].user] = reqs[q].arg[1]

\* two saves of the ADMIN u4 as COMPANY_OWNER are over: one lost its INSERT
\* of the DriverProfile to the other, which committed both rows
C37_Witness ==
    /\ \A r \in {1, 2} :
         /\ reqs[r].pc = "done"
         /\ reqs[r].user = "u4"
         /\ reqs[r].arg = Some("COMPANY_OWNER")
         /\ reqs[r].result = "Ok"
    /\ reqs[1].obj.error = "IntegrityError"
    /\ reqs[2].obj.error = "none"
    /\ Has("u4") = Tables
    /\ \A t \in Tables : Cardinality(Related(db, t, "u4")) = 1
====
